---------------------------- MODULE Spec2Model ----------------------------
(***************************************************************************)
(* Media Control Bridge: the media-state reconciliation engine.            *)
(*                                                                         *)
(* The model covers the macOS polling controller (media/mac.js), the       *)
(* Windows event-driven controller and its helper watcher (media/windows.js*)
(* and native/windows/Program.cs), the media interface that holds the      *)
(* Snapshot read by HTTP and WebSocket (media/index.js), the HTTP control  *)
(* routes and the WebSocket fan-out.                                       *)
(***************************************************************************)
EXTENDS Integers, Sequences, FiniteSets, TLC

\* ------------------------------------------------------------------ bounds
NTracks == 2      \* tracks the backend can be playing
MaxPos == 2       \* backend player position, in half seconds
MaxInv == 1       \* concurrent CheckAndEmitStatus invocations of the helper
MaxRun == 2
NClients == 2       \* consecutive cycles counted in a run of equal reports

\* --------------------------------------------------------------- constants
APPLESCRIPT_TIMEOUT == 800
pollRate == 1000
TOGGLE_WAIT == 100
\* How long an adapter call that does not hang takes, in ms.
FastCall == 100
MEDIA_CONTROL_TIMEOUT == 2000

NULL == "null"
Apps == {"Spotify", "Music"}
Prefs == {"auto"} \cup Apps
Platforms == {"darwin", "win32"}
CommandNames == {"play", "pause", "toggle", "next", "previous"}

\* ----------------------------------------------------------------- backend
\* The catalogue of tracks the external players can be on.  Tracks 2 and 3
\* share a title and differ in artist.
Titles == <<"A", "B", "B", "C", "C">>
Artists == <<"x", "x", "y", "x", "y">>
Durations == <<271672, 90000, 1500, 61000, 2999>>
Catalogue == 1..Len(Titles)
TrackIds == 1..NTracks

\* What the players outside look like at the moment a call observes them:
\* the apps whose player is running and playing or paused, the track they
\* are on, whether the state is "playing" and the position in half seconds.
Backend == [present : SUBSET Apps, track : Catalogue, playing : BOOLEAN,
            pos : 0..MaxPos]

VARIABLES
  platform,       \* process.platform
  preferredApp,   \* config 'media.preferredApp'
  hist,           \* what this specification records and how wide its inputs
  currentApp,     \* controller.currentApp
  currentTrack,   \* controller.currentTrack
  currentState,   \* controller.currentState
  lastTrackName,  \* controller.lastTrackName
  isChecking,     \* controller.isChecking
  isRunning,      \* controller.isRunning
  loop,           \* position of start()/pollLoop()
  cy,             \* the checkMediaState invocation in progress
  inFlight,       \* checkMediaState invocations past the guard, not finished
  cyEvents,       \* names of the events emitted by the latest cycle
  tick,           \* what the latest poll tick did
  artPending,     \* artwork fetches whose continuation has not run
  mi,             \* the media interface: currentTrack, currentState, currentApp
  run,            \* bookkeeping of consecutive cycles with the same report
  watch,          \* the helper watcher process: none, spawned, ready
  helper,         \* the watcher's currentSession, lastTrackId, lastIsPlaying
  hPending,       \* CheckAndEmitStatus invocations awaiting media properties
  cmd,            \* the control command in progress or just answered
  http,           \* the HTTP response to the latest control request
  sub,            \* a WebSocket subscriber
  currentBundleId, \* controller.currentBundleId of the media-control revision
  winStopped,     \* stop() of the Windows controller has been called
  restart,        \* the watcher's exit: "exiting" (killed, exit event not yet
                  \* delivered), "timer" (restart timer pending) or "none"
  due,            \* ms until pollLoop's timer fires
  spent,          \* ms the cycle in flight has been awaiting its adapter calls
  clients,        \* WebSocketServer.clients: each client's socket and the
                  \* messages the latest publication delivered to it
  boot,           \* MediaControlBridge: "init", "up" (initialize() done),
                  \* "quitting" (shutdown() under way) or "exited"
  wsUp,           \* the WebSocket server has been started and not stopped
  tray,           \* the tray exists
  bindFailed,     \* httpServer.start() has rejected
  reply           \* the HTTP response to the latest GET /status or GET /track

\* The backends a call about appName can tell apart: only that app's presence
\* matters to it, and nothing does for an app without a script.
Shown ==
  IF "narrow" \in hist \/ "moving" \in hist \/ "seek" \in hist THEN {1}
  ELSE IF "twins" \in hist THEN {2, 3}
  ELSE TrackIds

View(appName) ==
  IF appName \in Apps
    THEN [present : SUBSET {appName}, track : Shown, playing : BOOLEAN,
          pos : IF "narrow" \in hist \/ "still" \in hist
                  THEN {0} ELSE 0..MaxPos]
    ELSE {[present |-> {}, track |-> 1, playing |-> FALSE, pos |-> 0]}
\* ... and those a call that reads no playback state can tell apart.
TrackView(appName) == {b \in View(appName) : ~b.playing /\ b.pos = 0}

NullTrack == [title |-> NULL, artist |-> NULL, album |-> NULL,
              duration |-> 0, artwork |-> NULL]
NullData == [title |-> NULL, artist |-> NULL, album |-> NULL,
             duration |-> 0, artwork |-> NULL, appName |-> NULL]

\* An event as handed to the controller's callback.
EvConnected(app) ==
  [name |-> "media_connected", appName |-> app, track |-> NullData,
   isPlaying |-> FALSE, position |-> 0]
EvDisconnected ==
  [name |-> "media_disconnected", appName |-> NULL, track |-> NullData,
   isPlaying |-> FALSE, position |-> 0]
EvTrack(t, app) ==
  [name |-> "track_changed", appName |-> app,
   track |-> [title |-> t.title, artist |-> t.artist, album |-> t.album,
              duration |-> t.duration, artwork |-> t.artwork, appName |-> app],
   isPlaying |-> FALSE, position |-> 0]
EvPlayback(pb) ==
  [name |-> "playback_state_changed", appName |-> NULL, track |-> NullData,
   isPlaying |-> pb.isPlaying, position |-> pb.position]

\* ------------------------------------------------------- media/index.js
MiInit == [currentTrack |-> NullData,
           currentState |-> [isPlaying |-> FALSE, position |-> 0,
                             connected |-> FALSE],
           currentApp |-> NULL]

handlePlatformEvent(m, e) ==
  CASE e.name = "track_changed" ->
         [m EXCEPT !.currentTrack = e.track]
    [] e.name = "playback_state_changed" ->
         [m EXCEPT !.currentState.isPlaying = e.isPlaying,
                   !.currentState.position = e.position]
    [] e.name = "media_connected" ->
         IF e.appName # NULL
           THEN [m EXCEPT !.currentApp = e.appName,
                          !.currentState.connected = TRUE]
           ELSE m
    [] e.name = "media_disconnected" ->
         [m EXCEPT !.currentApp = NULL,
                   !.currentState.connected = FALSE,
                   !.currentTrack = NullData]
    [] OTHER -> m

\* The controller's emit() calls the interface's handler synchronously, so
\* the events of one step are handled in order within that step.
RECURSIVE Deliver(_, _)
Deliver(m, evs) ==
  IF evs = <<>> THEN m
  ELSE Deliver(handlePlatformEvent(m, Head(evs)), Tail(evs))

Names(evs) == [i \in 1..Len(evs) |-> evs[i].name]

\* ------------------------------------------------------------ websocket
\* A subscriber: whether its connection is open, the apps a connection_status
\* it received has marked connected, and whether it has received a
\* track_changed naming an app no connection_status had marked connected.
\* getFullStatus(): connected, appName, isPlaying and the track, which
\* carries the position; the status object itself has no position property.
NoStatusTrack == [title |-> NULL, artist |-> NULL, album |-> NULL,
                  artwork |-> NULL, duration |-> 0, position |-> 0]
getFullStatus(m) ==
  [connected |-> m.currentState.connected,
   appName |-> m.currentApp,
   isPlaying |-> m.currentState.isPlaying,
   track |-> IF m.currentTrack = NullData THEN NoStatusTrack
             ELSE [title |-> m.currentTrack.title,
                   artist |-> m.currentTrack.artist,
                   album |-> m.currentTrack.album,
                   artwork |-> m.currentTrack.artwork,
                   duration |-> m.currentTrack.duration,
                   position |-> m.currentState.position]]

\* Faulty variant: the track is sent only to a client of a connected server.
CatchUpTrackIfConnected(status) ==
  [names |-> <<"connection_status">>
             \o (IF status.connected
                   THEN <<"track_changed", "playback_state_changed">>
                   ELSE <<>>),
   connection |-> [connected |-> status.connected,
                   appName |-> status.appName],
   track |-> status.track,
   playback |-> [isPlaying |-> status.isPlaying, hasPosition |-> FALSE,
                 position |-> 0]]

\* The messages the connection handler sends to a new client, in order, and
\* their data.  The playback message reads status.position, a property the
\* status may not have; JSON then leaves the position out.
CatchUp(status) ==
  [names |-> <<"connection_status">>
             \o (IF status.track # NoStatusTrack
                   THEN <<"track_changed">> ELSE <<>>)
             \o (IF status.connected
                   THEN <<"playback_state_changed">> ELSE <<>>),
   connection |-> [connected |-> status.connected,
                   appName |-> status.appName],
   track |-> status.track,
   playback |-> [isPlaying |-> status.isPlaying,
                 hasPosition |-> "position" \in DOMAIN status,
                 position |-> IF "position" \in DOMAIN status
                                THEN status["position"] ELSE 0]]

NoCatchUp == [names |-> <<>>,
              connection |-> [connected |-> FALSE, appName |-> NULL],
              track |-> NoStatusTrack,
              playback |-> [isPlaying |-> FALSE, hasPosition |-> FALSE,
                            position |-> 0]]

NoSub == [open |-> FALSE, seen |-> {}, early |-> FALSE,
          catchup |-> NoCatchUp]

\* setupMediaEventHandlers and broadcast: what one event does to a subscriber.
broadcast(c, e) ==
  IF ~c.open \/ "order" \notin hist THEN c
  ELSE CASE e.name = "media_connected" ->
              [c EXCEPT !.seen = c.seen \cup {e.appName}]
         [] e.name = "track_changed" ->
              [c EXCEPT !.early = c.early \/ e.track.appName \notin c.seen]
         [] OTHER -> c

RECURSIVE Fanout(_, _)
Fanout(c, evs) ==
  IF evs = <<>> THEN c
  ELSE Fanout(broadcast(c, Head(evs)), Tail(evs))

\* The set of clients.  A socket is "none" (not in the set), "open", "broken"
\* (open, but send() throws) or "closed" (in the set until its close event,
\* readyState no longer OPEN).
ClientIds == 1..NClients
NoClient == [state |-> "none", got |-> <<>>, ev |-> "none"]

\* What is recorded as a socket's last event: nothing unless the history
\* asks for it.
SocketEvent(h, e) == IF "reg" \in h THEN e ELSE "none"

\* Faulty variant: stop() closes the clients and leaves them in the set.
stopClientsNoClear(cl) ==
  [c \in DOMAIN cl |->
     IF cl[c].state = "none" THEN cl[c]
     ELSE [state |-> "closed", got |-> <<>>,
           ev |-> IF cl[c].ev = "none" THEN "none" ELSE "stop"]]

\* stop(): close() on every client of the set, then clients.clear().
stopClients(cl) ==
  [c \in DOMAIN cl |->
     IF cl[c].state = "none" THEN cl[c]
     ELSE [NoClient EXCEPT !.ev = IF cl[c].ev = "none" THEN "none" ELSE "stop"]]

\* Faulty variant: the first send that throws ends the forEach.
sendUntilThrow(cl, e) ==
  [c \in DOMAIN cl |->
     IF cl[c].state = "open" /\ \A d \in 1..(c - 1) : cl[d].state # "broken"
       THEN [cl[c] EXCEPT !.got = Append(@, e.name)] ELSE cl[c]]

\* broadcast(): every client of the set whose socket is OPEN is sent the
\* message; a send that throws is caught and the next client is served.
sendToClients(cl, e) ==
  [c \in DOMAIN cl |->
     IF cl[c].state = "open"
       THEN [cl[c] EXCEPT !.got = Append(@, e.name)] ELSE cl[c]]

RECURSIVE PublishAll(_, _)
PublishAll(cl, evs) ==
  IF evs = <<>> THEN cl
  ELSE PublishAll(sendToClients(cl, Head(evs)), Tail(evs))

\* The events of one step, broadcast one after the other.
Publish(cl, evs) ==
  PublishAll([c \in DOMAIN cl |-> [cl[c] EXCEPT !.got = <<>>]], evs)

\* ---------------------------------------------------------- media/mac.js
supportsAppleScriptControl(appName) == appName = "Spotify" \/ appName = "Music"

\* isAppPlaying: a failed probe counts as "not playing".
isAppPlaying(appName, present, failed) ==
  appName \in present /\ appName \notin failed

\* Faulty variant: nothing is returned when no scripted app is present.
getCurrentMediaAppNoFallback(pref, cur, present, failed) ==
  IF pref # "auto"
    THEN IF isAppPlaying(pref, present, failed) THEN pref ELSE NULL
  ELSE IF cur # NULL /\ cur # "System" /\ isAppPlaying(cur, present, failed)
    THEN cur
  ELSE IF isAppPlaying("Spotify", present, failed) THEN "Spotify"
  ELSE IF isAppPlaying("Music", present, failed) THEN "Music"
  ELSE NULL

\* Faulty variant: 'System', once current, takes the fast path as well.
getCurrentMediaAppKeepSystem(pref, cur, present, failed) ==
  IF pref # "auto"
    THEN IF isAppPlaying(pref, present, failed) THEN pref ELSE NULL
  ELSE IF cur # NULL /\ (cur = "System" \/ isAppPlaying(cur, present, failed))
    THEN cur
  ELSE IF isAppPlaying("Spotify", present, failed) THEN "Spotify"
  ELSE IF isAppPlaying("Music", present, failed) THEN "Music"
  ELSE "System"

\* Faulty variant: the scan comes first, whatever the current app.
getCurrentMediaAppScanFirst(pref, cur, present, failed) ==
  IF pref # "auto"
    THEN IF isAppPlaying(pref, present, failed) THEN pref ELSE NULL
  ELSE IF isAppPlaying("Spotify", present, failed) THEN "Spotify"
  ELSE IF isAppPlaying("Music", present, failed) THEN "Music"
  ELSE "System"

\* getCurrentMediaApp, with the presence the probes see and the probes that
\* fail in this resolution.
getCurrentMediaApp(pref, cur, present, failed) ==
  IF pref # "auto"
    THEN IF isAppPlaying(pref, present, failed) THEN pref ELSE NULL
  ELSE IF cur # NULL /\ cur # "System" /\ isAppPlaying(cur, present, failed)
    THEN cur
  ELSE IF isAppPlaying("Spotify", present, failed) THEN "Spotify"
  ELSE IF isAppPlaying("Music", present, failed) THEN "Music"
  ELSE "System"

\* The isAppPlaying calls getCurrentMediaApp makes, in order.
PresenceChecks(pref, cur, present, failed) ==
  IF pref # "auto" THEN <<pref>>
  ELSE LET first == IF cur # NULL /\ cur # "System" THEN <<cur>> ELSE <<>>
       IN IF first # <<>> /\ isAppPlaying(cur, present, failed) THEN first
          ELSE IF isAppPlaying("Spotify", present, failed)
            THEN first \o <<"Spotify">>
          ELSE first \o <<"Spotify", "Music">>

\* getQuickTrackName: the track name alone; "" when the app is not running,
\* null for an app without a script, null when the call fails.
getQuickTrackName(appName, b, ok) ==
  IF ~supportsAppleScriptControl(appName) THEN NULL
  ELSE IF ~ok THEN NULL
  ELSE IF appName \in b.present THEN Titles[b.track] ELSE ""

\* Spotify reports the duration in milliseconds, Music in seconds.
DurationMs(appName, ms) ==
  IF appName = "Music" THEN (ms \div 1000) * 1000 ELSE ms

UnknownTrack == [title |-> "Unknown", artist |-> "Unknown Artist",
                 album |-> "Unknown Album", duration |-> 0, artwork |-> NULL]

fetchTrackInfo(appName, b, ok) ==
  IF appName = "System"
    THEN [title |-> "System Audio", artist |-> "", album |-> "",
          duration |-> 0, artwork |-> NULL]
  ELSE IF ~supportsAppleScriptControl(appName)
    THEN [title |-> "Playing from app", artist |-> "Unknown Artist",
          album |-> "Unknown Album", duration |-> 0, artwork |-> NULL]
  ELSE IF ~ok \/ appName \notin b.present THEN UnknownTrack
  ELSE [title |-> Titles[b.track], artist |-> Artists[b.track],
        album |-> "Album",
        duration |-> DurationMs(appName, Durations[b.track]),
        artwork |-> NULL]

\* fetchPlaybackState: the position is floored to whole seconds and scaled
\* to milliseconds; a failed call reports not playing at 0.
fetchPlaybackState(appName, b, ok) ==
  IF ~supportsAppleScriptControl(appName)
    THEN [isPlaying |-> TRUE, position |-> 0]
  ELSE IF ~ok \/ appName \notin b.present
    THEN [isPlaying |-> FALSE, position |-> 0]
  ELSE [isPlaying |-> b.playing, position |-> (b.pos \div 2) * 1000]

hasTrackChanged(cur, newTrack) ==
  IF newTrack = NullTrack THEN FALSE
  ELSE IF cur = NullTrack THEN TRUE
  ELSE \/ cur.title # newTrack.title
       \/ cur.artist # newTrack.artist
       \/ cur.album # newTrack.album

\* fetchArtworkUrl: Spotify's artwork URL, null for every other app, for an
\* empty answer and for a failed call.
fetchArtworkUrl(appName, b, ok) ==
  IF appName = "Spotify" /\ ok /\ appName \in b.present
    THEN "artwork-url" ELSE NULL

\* --------------------------------------------------- checkMediaState steps
IdleCy == [pc |-> "idle", app |-> NULL, quick |-> NULL,
           pb |-> [isPlaying |-> FALSE, position |-> 0],
           clean |-> TRUE, seen |-> 0, raw |-> -1, hung |-> 0, skips |-> 0,
           slow |-> 0, was |-> NULL, up |-> {}, res |-> "none", checks |-> 0]

Snapshot == <<currentApp, currentTrack, currentState, mi>>

\* Faulty variant: the cycle never raises its flag.
CheckingNeverSet == FALSE

\* The flag a cycle holds from its entry to its finally block.
CheckingDuringCycle == TRUE

\* Bookkeeping: the run of consecutive cycles in which every call succeeded
\* and the backend reported the same app and the same track.
NoRun == [app |-> NULL, track |-> 0, len |-> 0, tc |-> 0, art |-> 0,
          ft |-> 0]
Inc(n) == IF n < MaxRun THEN n + 1 ELSE MaxRun
RunAfter(c, key, emitted, fetched) ==
  LET k == Len(SelectSeq(emitted, LAMBDA n : n = "track_changed")) IN
  IF "run" \notin hist THEN NoRun
  ELSE IF ~c.clean \/ key = 0 THEN NoRun
  ELSE IF run.len > 0 /\ run.app = c.app /\ run.track = key
    THEN [run EXCEPT !.len = Inc(run.len),
                     !.ft = IF "fetches" \in hist /\ fetched
                              THEN Inc(run.ft) ELSE run.ft,
                     !.tc = IF k > 0 THEN Inc(run.tc) ELSE run.tc]
  ELSE [app |-> c.app, track |-> key, len |-> 1, tc |-> k, art |-> 0,
        ft |-> IF "fetches" \in hist /\ fetched THEN 1 ELSE 0]

\* What the backend is reporting for an app, as a run key: the track for a
\* scripted app that is present, 0 for one that is not running.
ReportKey(app, b) ==
  IF supportsAppleScriptControl(app)
    THEN (IF app \in b.present THEN b.track ELSE 0)
    ELSE NTracks + 1

Log(evs) == IF "order" \in hist THEN cyEvents \o Names(evs) ELSE <<>>

Clock == <<due, spent>>

\* The failures of adapter calls a specification tells apart from the
\* outcome they produce.
FailSets == IF "fail" \in hist THEN SUBSET Apps ELSE {{}}
Oks == IF "fail" \in hist THEN BOOLEAN ELSE {TRUE}

\* execWithTimeout: in a specification that keeps time a call either answers
\* after FastCall ms or hangs, and is then ended, and fails, at the timeout.
CallTime(ok) == IF ok THEN FastCall ELSE APPLESCRIPT_TIMEOUT
AppCallTime(appName, ok) ==
  IF supportsAppleScriptControl(appName) THEN CallTime(ok) ELSE 0
HungCalls(appName, oks) ==
  IF supportsAppleScriptControl(appName)
    THEN Cardinality({i \in DOMAIN oks : ~oks[i]}) ELSE 0
Max(a, b) == IF a >= b THEN a ELSE b

\* getCurrentMediaApp awaits its isAppPlaying calls one after the other.
RECURSIVE ResolveTime(_, _)
ResolveTime(checks, failed) ==
  IF checks = <<>> THEN 0
  ELSE CallTime(Head(checks) \notin failed) + ResolveTime(Tail(checks), failed)
ResolveHung(checks, failed) ==
  Cardinality({i \in DOMAIN checks : checks[i] \in failed})

\* execWithTimeout(`media-control ...`, 2000): the calls of System mode.
MediaCallTime(ok) == IF ok THEN FastCall ELSE MEDIA_CONTROL_TIMEOUT

\* A cycle that resolves to 'System': isAppPlaying of Spotify and of Music,
\* the Promise.all of the two `media-control get` calls, and the third one
\* of fetchTrackInfo when the probe differs from the fingerprint.
SystemTime(fetched, ok) ==
  2 * FastCall + MediaCallTime(ok) + (IF fetched THEN MediaCallTime(ok) ELSE 0)

\* Promise.all of the probe and the playback state: the longer of the two.
ProbeTime(appName, okQ, okP) ==
  Max(AppCallTime(appName, okQ), AppCallTime(appName, okP))

\* The await of the cycle in flight returns after d ms in all: later than a
\* timer that found it pending, and not after pollLoop's next timer, which
\* start() sets once the first check has returned.  An await that returns
\* at the very instant of the timer returns first.
Pass(d) ==
  IF "time" \notin hist THEN UNCHANGED Clock
  ELSE /\ spent = 0 \/ spent < d
       /\ spent' = 0
       /\ IF loop = "initial"
            THEN due' = pollRate
            ELSE d <= spent + due /\ due' = spent + due - d

\* The end of checkMediaState (its finally block) and, for the first check,
\* the call of pollLoop() that follows it in start().
CyEnd(c) ==
  /\ isChecking' = FALSE
  /\ inFlight' = inFlight - 1
  /\ cy' = IF "moving" \in hist
             THEN [IdleCy EXCEPT !.clean = c.clean, !.pb = c.pb,
                                 !.raw = c.raw]
             ELSE IF "time" \in hist
             THEN [IdleCy EXCEPT !.clean = c.clean, !.hung = c.hung,
                                 !.skips = c.skips, !.slow = c.slow]
             ELSE IF "fetches" \in hist
             THEN [IdleCy EXCEPT !.clean = c.clean, !.pb = c.pb,
                                 !.quick = c.quick]
             ELSE IF "resolve" \in hist
             THEN [IdleCy EXCEPT !.clean = c.clean, !.was = c.was,
                                 !.up = c.up, !.res = c.res,
                                 !.checks = c.checks]
             ELSE [IdleCy EXCEPT !.clean = c.clean]
  /\ loop' = IF loop = "initial" THEN "polling" ELSE loop

\* Entry of checkMediaState past its guard.
CyEnter ==
  /\ ~isChecking
  /\ isChecking' = CheckingDuringCycle
  /\ inFlight' = inFlight + 1
  /\ cy' = [IdleCy EXCEPT !.pc = "resolve"]
  /\ cyEvents' = <<>>

\* State that only the actions of later sections touch.
Shell == <<boot, wsUp, tray, bindFailed>>
Aux == <<currentBundleId, winStopped, restart, Shell, reply>>

Config == <<platform, preferredApp, hist, watch, helper, hPending, cmd, http,
            Aux>>

\* How long a cycle that resolves to 'System' can take: an answered probe
\* may or may not differ from the fingerprint, a failed one yields null.
SystemTimes ==
  {SystemTime(fetched, TRUE) : fetched \in BOOLEAN}
    \cup {SystemTime(lastTrackName # NULL, FALSE)}

\* How long the await of the cycle in flight can take.
StepTimes ==
  CASE cy.pc = "resolve" /\ "system" \in hist -> SystemTimes
    [] cy.pc = "resolve" ->
         {ResolveTime(PresenceChecks(preferredApp, currentApp, present,
                                     failed), failed) :
            present \in SUBSET Apps, failed \in FailSets}
    [] cy.pc = "probe" ->
         {ProbeTime(cy.app, okQ, okP) : okQ \in BOOLEAN, okP \in Oks}
    [] cy.pc = "fetch" -> {AppCallTime(cy.app, ok) : ok \in Oks}
    [] OTHER -> {}

\* pollLoop's timer fires: the poll interval has passed since it was set.
TimerFires ==
  IF "time" \notin hist THEN UNCHANGED Clock
  ELSE /\ cy.pc = "idle" \/ \E d \in StepTimes : d > spent + due
       /\ due' = pollRate
       /\ spent' = IF cy.pc = "idle" THEN 0 ELSE spent + due

\* start(): isRunning, then the first checkMediaState.
Start ==
  /\ platform = "darwin"
  /\ loop = "init"
  /\ isRunning' = TRUE
  /\ CyEnter
  /\ loop' = "initial"
  /\ UNCHANGED <<Config, Clock, currentApp, currentTrack, currentState,
                 lastTrackName, tick, artPending, mi, run, sub, clients>>

\* pollLoop(): one wake-up after the poll interval.  A wake-up after stop()
\* finds isRunning false, starts nothing and leaves the loop, so only the
\* wake-ups of a running controller are steps.
Tick ==
  /\ platform = "darwin"
  /\ loop = "polling"
  /\ isRunning
  /\ TimerFires
  /\ IF ~isChecking /\ isRunning
       THEN /\ CyEnter
            /\ tick' = IF "tick" \in hist THEN "started" ELSE tick
       ELSE /\ tick' = IF "tick" \in hist THEN "skipped" ELSE tick
            /\ cy' = IF "time" \in hist
                       THEN [cy EXCEPT !.skips = @ + 1] ELSE cy
            /\ UNCHANGED <<isChecking, inFlight, cyEvents>>
  /\ UNCHANGED <<Config, loop, currentApp, currentTrack, currentState,
                 lastTrackName, isRunning, artPending, mi, run, sub,
                 clients>>

\* stop()
Stop ==
  /\ platform = "darwin"
  /\ loop # "init"
  /\ isRunning
  /\ isRunning' = FALSE
  /\ UNCHANGED <<Config, Clock, currentApp, currentTrack, currentState,
                 lastTrackName, isChecking, loop, cy, inFlight, cyEvents,
                 tick, artPending, mi, run, sub, clients>>

\* Faulty variant: the disconnection branch runs whatever the stored app.
wasConnectedAlways(cur) == TRUE

\* The guard of the disconnection branch: an app was active until now.
wasConnected(cur) == cur # NULL

\* App resolution and, when it yields nothing, the disconnection branch.
CycleResolve ==
  /\ cy.pc = "resolve"
  /\ \E present \in SUBSET Apps, failed \in FailSets :
       LET app == getCurrentMediaApp(preferredApp, currentApp, present, failed)
           checks == PresenceChecks(preferredApp, currentApp, present,
                                    failed)
           c == [cy EXCEPT !.app = app,
                           !.clean = \A i \in DOMAIN checks :
                                       checks[i] \notin failed,
                           !.hung = IF "time" \in hist
                                      THEN ResolveHung(checks, failed) ELSE 0,
                           !.was = IF "resolve" \in hist
                                     THEN currentApp ELSE NULL,
                           !.up = IF "resolve" \in hist
                                    THEN {a \in Apps :
                                           isAppPlaying(a, present, failed)}
                                    ELSE {},
                           !.res = IF "resolve" \in hist THEN app ELSE "none",
                           !.checks = IF "resolve" \in hist
                                        THEN Len(checks) ELSE 0]
       IN
       /\ Pass(ResolveTime(checks, failed))
       /\ IF app = NULL
         THEN LET gone == wasConnected(currentApp)
                  evs == IF gone THEN <<EvDisconnected>> ELSE <<>>
              IN /\ currentApp' = IF gone THEN NULL ELSE currentApp
                 /\ currentTrack' = IF gone THEN NullTrack ELSE currentTrack
                 /\ lastTrackName' = IF gone THEN NULL ELSE lastTrackName
                 /\ cyEvents' = Log(evs)
                 /\ mi' = Deliver(mi, evs)
                 /\ sub' = Fanout(sub, evs)
                 /\ clients' = Publish(clients, evs)
                 /\ run' = NoRun
                 /\ CyEnd(c)
         ELSE /\ cy' = [c EXCEPT !.pc = "probe"]
              /\ UNCHANGED <<currentApp, currentTrack, lastTrackName, cyEvents,
                             mi, sub, clients, run, isChecking, inFlight,
                             loop>>
  /\ UNCHANGED <<Config, currentState, isRunning, tick, artPending>>

\* Faulty variant: every cycle that reaches the comparison reports a track.
trackChangedAlways(cur, trackInfo) == TRUE

\* The condition under which a cycle reports a track: a full fetch was made
\* and what it returned differs from the stored track.
trackChanged(cur, trackInfo) ==
  trackInfo # NullTrack /\ hasTrackChanged(cur, trackInfo)

\* Faulty variant: a moved position alone reports nothing.
positionChangedNever(cur, pb) == FALSE

\* Lines 126-127: the two comparisons of the fetched playback state.
playingChanged(cur, pb) == cur.isPlaying # pb.isPlaying
positionChanged(cur, pb) == cur.position # pb.position

\* Faulty variant: the artwork is awaited and sent with the first event.
announcedWithArtwork(trackInfo) ==
  [trackInfo EXCEPT !.artwork = "artwork-url"]

\* Lines 110-111: the detected track is stored and emitted as fetched, the
\* artwork fetch being started only afterwards and not awaited.
announced(trackInfo) == trackInfo

\* Lines 102-133: the comparison with the controller's state and the events.
DiffEvents(app, trackInfo, pb) ==
  (IF currentApp # app THEN <<EvConnected(app)>> ELSE <<>>)
  \o (IF trackChanged(currentTrack, trackInfo)
        THEN <<EvTrack(announced(trackInfo), app)>> ELSE <<>>)
  \o (IF playingChanged(currentState, pb) \/ positionChanged(currentState, pb)
        THEN <<EvPlayback(pb)>> ELSE <<>>)

Diff(c, trackInfo, key) ==
  LET evs == DiffEvents(c.app, trackInfo, c.pb)
      tc == trackChanged(currentTrack, trackInfo)
  IN /\ currentApp' = c.app
     /\ currentTrack' = IF tc THEN trackInfo ELSE currentTrack
     /\ artPending' = IF tc /\ c.app = "Spotify"
                        THEN artPending \cup {[app |-> c.app,
                                                title |-> trackInfo.title,
                                                artist |->
                                                  IF "twins" \in hist
                                                    THEN trackInfo.artist
                                                    ELSE NULL]}
                        ELSE artPending
     /\ currentState' = IF \/ playingChanged(currentState, c.pb)
                            \/ positionChanged(currentState, c.pb)
                          THEN c.pb ELSE currentState
     /\ cyEvents' = Log(evs)
     /\ mi' = Deliver(mi, evs)
     /\ sub' = Fanout(sub, evs)
     /\ clients' = Publish(clients, evs)
     /\ run' = RunAfter(c, key, Names(evs), trackInfo # NullTrack)
     /\ CyEnd(c)

\* Faulty variant: the full fetch is made whatever the probe returned.
probeDiffersAlways(quick, last) == TRUE

\* Line 97: the probe compared with the stored track name.
probeDiffers(quick, last) == quick # last

\* The track-name probe and the playback state, fetched together.
CycleProbe ==
  /\ cy.pc = "probe"
  /\ \E b \in View(cy.app), okQ \in BOOLEAN, okP \in Oks :
       LET quick == getQuickTrackName(cy.app, b, okQ)
           pb == fetchPlaybackState(cy.app, b, okP)
           c == [cy EXCEPT !.quick = quick, !.pb = pb,
                           !.clean = cy.clean /\ okQ /\ okP,
                           !.seen = IF "run" \in hist
                                      THEN ReportKey(cy.app, b) ELSE 0,
                           !.raw = IF /\ "moving" \in hist
                                      /\ okP /\ cy.app \in b.present
                                     THEN b.pos ELSE -1,
                           !.hung = IF "time" \in hist
                                      THEN cy.hung
                                           + HungCalls(cy.app, <<okQ, okP>>)
                                      ELSE 0]
       IN /\ Pass(ProbeTime(cy.app, okQ, okP))
          /\ IF probeDiffers(quick, lastTrackName)
            THEN /\ cy' = [c EXCEPT !.pc = "fetch"]
                 /\ UNCHANGED <<currentApp, currentTrack, currentState,
                                artPending, cyEvents, mi, sub, clients, run,
                                isChecking, inFlight, loop>>
            ELSE Diff(c, NullTrack, c.seen)
  /\ UNCHANGED <<Config, lastTrackName, isRunning, tick>>

\* The full metadata fetch, made only when the probe differed.
CycleFetch ==
  /\ cy.pc = "fetch"
  /\ \E b \in TrackView(cy.app), ok \in Oks :
       LET trackInfo == fetchTrackInfo(cy.app, b, ok)
           c == [cy EXCEPT !.clean = cy.clean /\ ok,
                           !.hung = IF "time" \in hist
                                      THEN cy.hung + HungCalls(cy.app, <<ok>>)
                                      ELSE 0]
       IN /\ Pass(AppCallTime(cy.app, ok))
          /\ lastTrackName' = cy.quick
          /\ Diff(c, trackInfo,
                  IF ReportKey(cy.app, b) = cy.seen THEN cy.seen ELSE 0)
  /\ UNCHANGED <<Config, isRunning, tick>>

\* The continuation of an artwork fetch (lines 114-122).
ArtworkDone ==
  /\ \E p \in artPending,
        b \in TrackView("Spotify"), ok \in Oks :
       LET artworkUrl == fetchArtworkUrl(p.app, b, ok)
           merge == /\ artworkUrl # NULL
                    /\ currentTrack # NullTrack
                    /\ currentTrack.title = p.title
           t == [currentTrack EXCEPT !.artwork = artworkUrl]
           evs == IF merge THEN <<EvTrack(t, p.app)>> ELSE <<>>
       IN /\ artPending' = artPending \ {p}
          /\ currentTrack' = IF merge THEN t ELSE currentTrack
          /\ mi' = Deliver(mi, evs)
          /\ sub' = Fanout(sub, evs)
          /\ clients' = Publish(clients, evs)
          /\ run' = IF merge /\ run.len > 0
                      THEN [run EXCEPT !.art = Inc(run.art)] ELSE run
  /\ UNCHANGED <<Config, Clock, currentApp, currentState, lastTrackName,
                 isChecking, isRunning, loop, cy, inFlight, cyEvents, tick>>

\* ------------------------- the media-control revision of the controller
\* The revision of the macOS controller that reads the system's now-playing
\* information with the media-control binary when no scripted app plays.
Bundles == {"com.google.Chrome", "org.videolan.vlc"}

getAppNameFromBundle(bundleId) ==
  CASE bundleId = "com.google.Chrome" -> "Chrome"
    [] bundleId = "org.videolan.vlc" -> "vlc"
    [] OTHER -> NULL

\* What `media-control get` prints: null, or the now-playing information.
NoInfo == [valid |-> FALSE, bundle |-> NULL, track |-> 1, playing |-> FALSE,
           pos |-> 0]
SysInfos ==
  {NoInfo} \cup [valid : {TRUE}, bundle : Bundles, track : TrackIds,
                 playing : BOOLEAN, pos : 0..MaxPos]

getDisplayAppName(app, bundleId) ==
  IF app = "System" /\ bundleId # NULL
    THEN (IF getAppNameFromBundle(bundleId) # NULL
            THEN getAppNameFromBundle(bundleId) ELSE "System")
    ELSE app

\* getQuickTrackName('System'): info?.title || null, null on a failed call.
getQuickSystemTrackName(info, ok) ==
  IF ok /\ info.valid THEN Titles[info.track] ELSE NULL

\* fetchTrackInfo('System'): the track and its bundle identifier; the
\* 'System Audio' record when the output is null, 'Unknown' on a failed call.
fetchSystemTrackInfo(info, ok) ==
  IF ~ok THEN [track |-> UnknownTrack, bundleIdentifier |-> NULL]
  ELSE IF ~info.valid
    THEN [track |-> [title |-> "System Audio", artist |-> "", album |-> "",
                     duration |-> 0, artwork |-> NULL],
          bundleIdentifier |-> NULL]
  ELSE [track |-> [title |-> Titles[info.track],
                   artist |-> Artists[info.track], album |-> "Album",
                   duration |-> Durations[info.track], artwork |-> NULL],
        bundleIdentifier |-> info.bundle]

\* fetchPlaybackState('System'): elapsed seconds floored to milliseconds.
fetchSystemPlaybackState(info, ok) ==
  IF ok /\ info.valid
    THEN [isPlaying |-> info.playing, position |-> info.pos * 500]
    ELSE [isPlaying |-> FALSE, position |-> 0]

\* checkMediaState of this revision in auto mode while neither Spotify nor
\* Music plays: the app resolves to 'System'.
SystemCycle ==
  /\ platform = "darwin"
  /\ preferredApp = "auto"
  /\ cy.pc = "resolve"
  /\ \E info \in SysInfos, ok \in BOOLEAN :
       LET quick == getQuickSystemTrackName(info, ok)
           pb == fetchSystemPlaybackState(info, ok)
           fetched == quick # lastTrackName
           got == fetchSystemTrackInfo(info, ok)
           trackInfo == IF fetched THEN got.track ELSE NullTrack
           bundleId == IF fetched /\ got.bundleIdentifier # NULL
                         THEN got.bundleIdentifier ELSE currentBundleId
           displayAppName == getDisplayAppName("System", bundleId)
           tc == trackChanged(currentTrack, trackInfo)
           pc == \/ currentState.isPlaying # pb.isPlaying
                 \/ currentState.position # pb.position
           evs == (IF currentApp # "System"
                     THEN <<EvConnected(displayAppName)>> ELSE <<>>)
                  \o (IF tc THEN <<EvTrack(trackInfo, displayAppName)>>
                      ELSE <<>>)
                  \o (IF pc THEN <<EvPlayback(pb)>> ELSE <<>>)
       IN /\ lastTrackName' = IF fetched THEN quick ELSE lastTrackName
          /\ currentBundleId' = bundleId
          /\ currentApp' = "System"
          /\ currentTrack' = IF tc THEN trackInfo ELSE currentTrack
          /\ currentState' = IF pc THEN pb ELSE currentState
          /\ cyEvents' = Log(evs)
          /\ mi' = Deliver(mi, evs)
          /\ sub' = Fanout(sub, evs)
          /\ clients' = Publish(clients, evs)
          /\ CyEnd([cy EXCEPT !.app = "System", !.clean = ok,
                               !.slow = MediaCallTime(ok)])
          /\ Pass(SystemTime(fetched, ok))
  /\ UNCHANGED <<platform, preferredApp, hist, watch, helper, hPending, cmd,
                 http, isRunning, tick, artPending, run, winStopped, restart,
                 Shell, reply>>

\* ------------------------------------------ native/windows/Program.cs
SessionIds == {"Spotify.exe", "AppleInc.AppleMusicWin"}

GetAppName(appUserModelId) ==
  IF appUserModelId = "Spotify.exe" THEN "Spotify" ELSE "Apple Music"

PlayingFrom(appName) ==
  IF appName = "Spotify" THEN "Playing from Spotify"
  ELSE "Playing from Apple Music"

HelperInit == [currentSession |-> NULL, lastTrackId |-> 0,
               lastIsPlaying |-> FALSE]

\* The lines written when the playback state differs from the last one sent.
PlaybackLines(h, isPlaying, position) ==
  IF isPlaying # h.lastIsPlaying
    THEN <<EvPlayback([isPlaying |-> isPlaying, position |-> position])>>
    ELSE <<>>

\* CheckAndEmitStatus up to its await: the session, the connection lines.
CheckLines(h, session) ==
  IF session = NULL
    THEN (IF h.currentSession # NULL THEN <<EvDisconnected>> ELSE <<>>)
    ELSE (IF h.currentSession = NULL \/ h.currentSession # session
            THEN <<EvConnected(GetAppName(session))>> ELSE <<>>)

\* lastTrackId after the track part: 0 stands for null, NTracks + 1 for
\* "unknown".
UnknownId == NTracks + 1
TrackIdAfter(h, props) ==
  IF props = 0 THEN (IF h.lastTrackId = 0 THEN UnknownId ELSE h.lastTrackId)
  ELSE props

\* CheckAndEmitStatus after its await: the track line.
TrackLines(h, p, props) ==
  IF props = 0
    THEN IF h.lastTrackId = 0
           THEN <<EvTrack([title |-> PlayingFrom(GetAppName(p.session)),
                           artist |-> "Track information unavailable",
                           album |-> "", duration |-> p.duration,
                           artwork |-> NULL], GetAppName(p.session))>>
           ELSE <<>>
    ELSE IF props # h.lastTrackId
           THEN <<EvTrack([title |-> Titles[props], artist |-> Artists[props],
                           album |-> "Album", duration |-> p.duration,
                           artwork |-> NULL], GetAppName(p.session))>>
           ELSE <<>>

\* ------------------------------------------------------ media/windows.js
\* handleEvent: the controller's state and what it emits for one line.
handleEvent(st, e) ==
  CASE e.name = "media_connected" ->
         IF e.appName # NULL
           THEN [st EXCEPT !.app = e.appName,
                           !.out = Append(@, EvConnected(e.appName))]
           ELSE st
    [] e.name = "media_disconnected" ->
         [st EXCEPT !.app = NULL, !.track = NullTrack,
                    !.out = Append(@, EvDisconnected)]
    [] e.name = "track_changed" ->
         LET t == [title |-> e.track.title, artist |-> e.track.artist,
                   album |-> IF e.track.album = "" THEN "Unknown Album"
                             ELSE e.track.album,
                   duration |-> e.track.duration,
                   artwork |-> e.track.artwork]
             app == IF e.track.appName # NULL THEN e.track.appName ELSE st.app
         IN [st EXCEPT !.track = t, !.app = app,
                       !.out = Append(@, EvTrack(t, app))]
    [] e.name = "playback_state_changed" ->
         [st EXCEPT !.state = [isPlaying |-> e.isPlaying,
                               position |-> e.position],
                    !.out = Append(@, EvPlayback(e))]
    [] OTHER -> st

RECURSIVE HandleLines(_, _)
HandleLines(st, lines) ==
  IF lines = <<>> THEN st
  ELSE HandleLines(handleEvent(st, Head(lines)), Tail(lines))

\* The lines of one helper step arrive on stdout and are handled in order.
Receive(lines) ==
  LET st == HandleLines([app |-> currentApp, track |-> currentTrack,
                         state |-> currentState, out |-> <<>>], lines)
  IN /\ currentApp' = st.app
     /\ currentTrack' = st.track
     /\ currentState' = st.state
     /\ mi' = Deliver(mi, st.out)
     /\ sub' = Fanout(sub, st.out)
     /\ clients' = Publish(clients, st.out)

MacOnly == <<lastTrackName, isChecking, isRunning, cy, inFlight, cyEvents,
             tick, artPending, run, Aux, Clock>>

\* start(): the watcher is spawned; start's promise waits for "ready".
WinStart ==
  /\ platform = "win32"
  /\ loop = "init"
  /\ watch = "none"
  /\ watch' = "spawned"
  /\ helper' = HelperInit
  /\ loop' = "initial"
  /\ UNCHANGED <<platform, preferredApp, hist, hPending, cmd, http, sub, clients,
                 mi,
                 currentApp, currentTrack, currentState, MacOnly>>

\* WatchMode writes the ready line; handleEvent calls this._readyResolve,
\* the resolver of the promise of the latest start().  initialize() awaits
\* the promise of the first start(): it returns when that start's resolver
\* is the one called.
HelperReady ==
  /\ watch = "spawned"
  /\ watch' = "ready"
  /\ loop' = IF loop = "initial" THEN "polling" ELSE loop
  /\ UNCHANGED <<platform, preferredApp, hist, helper, hPending, cmd, http,
                 sub, clients, mi, currentApp, currentTrack, currentState,
                 MacOnly>>

\* CheckAndEmitStatus, called for the initial status and by every session,
\* media-property and playback event, up to its await.
HelperCheck ==
  /\ watch = "ready"
  /\ \E session \in {x \in SessionIds \cup {NULL} :
                      x # NULL => Cardinality(hPending) < MaxInv},
        b \in [present : {{}},
              track : IF "narrow" \in hist THEN {1} ELSE TrackIds,
              playing : BOOLEAN,
              pos : IF "narrow" \in hist THEN {0} ELSE 0..MaxPos] :
       LET lines == CheckLines(helper, session) IN
       /\ helper' = [helper EXCEPT !.currentSession = session]
       /\ hPending' = IF session = NULL THEN hPending
                      ELSE hPending \cup
                             {[session |-> session, isPlaying |-> b.playing,
                               position |-> b.pos \div 2,
                               duration |-> Durations[b.track] \div 1000]}
       /\ Receive(lines)
  /\ UNCHANGED <<platform, preferredApp, hist, watch, loop, cmd, http,
                 MacOnly>>

\* ... and from the await on: the media properties (0 when the session has
\* none), or an exception, which the catch block only logs.
HelperResume ==
  /\ watch = "ready"
  /\ \E p \in hPending, threw \in BOOLEAN,
        props \in 0..(IF "narrow" \in hist THEN 1 ELSE NTracks) :
       LET pl == PlaybackLines(helper, p.isPlaying, p.position)
           lines == IF threw THEN <<>>
                    ELSE TrackLines(helper, p, props) \o pl
       IN /\ hPending' = hPending \ {p}
          /\ helper' = IF threw THEN helper
                       ELSE [helper EXCEPT
                               !.lastTrackId = TrackIdAfter(helper, props),
                               !.lastIsPlaying = p.isPlaying]
          /\ Receive(lines)
          /\ cmd' = IF /\ "ctl" \in hist /\ ~threw /\ pl # <<>>
                        /\ cmd.pc = "sent" /\ cmd.name = "toggle"
                       THEN [cmd EXCEPT !.heard = IF p.isPlaying
                                                    THEN "playing"
                                                    ELSE "paused"]
                       ELSE cmd
  /\ UNCHANGED <<platform, preferredApp, hist, watch, loop, http,
                 MacOnly>>

\* stop(): the watcher, if there is one, is killed and forgotten.
WinStop ==
  /\ platform = "win32"
  /\ loop # "init"
  /\ ~winStopped
  /\ winStopped' = TRUE
  /\ IF watch # "none"
       THEN watch' = "none" /\ restart' = "exiting" /\ hPending' = {}
       ELSE UNCHANGED <<watch, restart, hPending>>
  /\ UNCHANGED <<platform, preferredApp, hist, helper, cmd, http, sub, clients,
                 mi,
                 loop, currentApp, currentTrack, currentState, lastTrackName,
                 isChecking, isRunning, cy, inFlight, cyEvents, tick,
                 artPending, run, currentBundleId, Clock, Shell, reply>>

\* The 'exit' handler of the watcher, for a watcher that ended by itself or
\* for one stop() killed: watchProcess = null and the restart timer is set.
WatcherExit ==
  /\ platform = "win32"
  /\ watch # "none" \/ restart = "exiting"
  /\ watch' = "none"
  /\ restart' = "timer"
  /\ hPending' = {}
  /\ UNCHANGED <<platform, preferredApp, hist, helper, cmd, http, sub, clients,
                 mi,
                 loop, currentApp, currentTrack, currentState, lastTrackName,
                 isChecking, isRunning, cy, inFlight, cyEvents, tick,
                 artPending, run, currentBundleId, winStopped, Clock, Shell, reply>>

\* The restart timer, 5 s after the exit: start() again when the controller
\* holds no watcher.  start() replaces this._readyResolve: when the first
\* start's promise is still pending its resolver is lost ("orphaned").
WinRestart ==
  /\ platform = "win32"
  /\ restart = "timer"
  /\ restart' = "none"
  /\ IF watch = "none"
       THEN /\ watch' = "spawned"
            /\ helper' = HelperInit
            /\ loop' = IF loop = "initial" THEN "orphaned" ELSE loop
       ELSE UNCHANGED <<watch, helper, loop>>
  /\ UNCHANGED <<platform, preferredApp, hist, hPending, cmd, http, sub, clients,
                 mi,
                 currentApp, currentTrack, currentState, lastTrackName,
                 isChecking, isRunning, cy, inFlight, cyEvents, tick,
                 artPending, run, currentBundleId, winStopped, Clock, Shell, reply>>

\* ------------------------------------------------------ control commands
NoResult == [success |-> FALSE, error |-> NULL, hasIsPlaying |-> FALSE,
             isPlaying |-> FALSE]
NoCmd == [pc |-> "none", name |-> NULL, target |-> NULL, calls |-> 0,
          via |-> NULL, asked |-> "none", heard |-> "none",
          failed |-> FALSE, threw |-> FALSE, truth |-> FALSE,
          result |-> NoResult]
NoHttp == [status |-> 0, body |-> NoResult]

Success == [NoResult EXCEPT !.success = TRUE]
Failure(message) == [NoResult EXCEPT !.error = message]
SuccessPlaying(isPlaying) ==
  [NoResult EXCEPT !.success = TRUE, !.hasIsPlaying = TRUE,
                   !.isPlaying = isPlaying]

\* Faulty variant: the catch block throws the error again.
CaughtRethrown(message) == [result |-> NoResult, threw |-> TRUE]

\* The catch block of a control method: the error becomes the result.
Caught(message) == [result |-> Failure(message), threw |-> FALSE]

\* The POST routes of the HTTP server: the result is sent with res.json,
\* and the 500 answer is sent only from the route's own catch block.
Respond(result, threw) ==
  IF threw
    THEN [status |-> 500, body |-> Failure("exception")]
    ELSE [status |-> 200, body |-> result]

\* GET /track: 404 when getTrackInfo() returns null, else the track.
GetTrack(m) ==
  IF m.currentTrack = NullData
    THEN [status |-> 404, track |-> NullData]
    ELSE [status |-> 200,
          track |-> [m.currentTrack EXCEPT !.appName = m.currentApp]]

\* The command is answered: the method returns (or throws) and the route
\* writes the response.
Answer(c, out) ==
  /\ cmd' = [c EXCEPT !.pc = "done", !.result = out.result,
                      !.threw = out.threw]
  /\ http' = Respond(out.result, out.threw)

\* The HTTP server (and the tray) exist once initialize() has completed and
\* until shutdown.
Serving == loop = "polling" /\ (platform = "darwin" => isRunning)

EngineVars == <<platform, preferredApp, hist, currentApp, currentTrack,
                currentState, lastTrackName, isChecking, isRunning, loop, cy,
                inFlight, cyEvents, tick, artPending, mi, run, watch, helper,
                hPending, sub, clients, Aux, Clock>>

\* EngineVars but for the controller's playback state.
EngineRest == <<platform, preferredApp, hist, currentApp, currentTrack,
                lastTrackName, isChecking, isRunning, loop, cy,
                inFlight, cyEvents, tick, artPending, mi, run, watch, helper,
                hPending, sub, clients, Aux, Clock>>

\* Faulty variant: toggle stores the playback state it fetched.
toggleStores(state, newState) == newState

\* toggle (lines 493-497): newState is a local, this.currentState is left
\* as it was.
toggleKeeps(state, newState) == state

\* Faulty variant: every app is sent the script of a named app.
commandRouteAlwaysApp(appName) == "app"

\* The branch a control method of mac.js takes: the app's own script, or
\* sendMediaKey (`media-control` in the later revision) for any other app.
commandRoute(appName) ==
  IF supportsAppleScriptControl(appName) THEN "app" ELSE "system"

\* mac.js play/pause/toggle/next/previous up to the adapter call; windows.js
\* up to the spawn of the helper.
CmdCall ==
  /\ Serving
  /\ cmd.pc \in {"none", "done"}
  /\ \E name \in CommandNames :
       LET c == [NoCmd EXCEPT !.name = name, !.target = currentApp] IN
       IF platform = "darwin" /\ currentApp = NULL
         THEN Answer(c, [result |-> Failure("No media app active"),
                         threw |-> FALSE])
         ELSE /\ cmd' = [c EXCEPT !.pc = "sent", !.calls = 1,
                                  !.via = IF platform = "darwin"
                                            THEN commandRoute(currentApp)
                                            ELSE "helper"]
              /\ http' = NoHttp
  /\ UNCHANGED EngineVars

\* mac.js: the adapter call returns or fails.
MacCmdReturn ==
  /\ platform = "darwin"
  /\ cmd.pc = "sent"
  /\ \E ok \in BOOLEAN :
       IF ~ok
         THEN Answer([cmd EXCEPT !.failed = TRUE], Caught("adapter error"))
       ELSE IF cmd.name = "toggle"
         THEN /\ cmd' = [cmd EXCEPT !.pc = "waiting"]
              /\ UNCHANGED http
       ELSE Answer(cmd, [result |-> Success, threw |-> FALSE])
  /\ UNCHANGED EngineVars

\* mac.js toggle after its wait: the playback state is fetched again for
\* what this.currentApp is by now.
MacToggleRefetch ==
  /\ platform = "darwin"
  /\ cmd.pc = "waiting"
  /\ \E b \in [present : SUBSET {cmd.target}, track : {1},
                playing : BOOLEAN, pos : {0}],
        other \in [present : SUBSET ({currentApp} \cap Apps), track : {1},
                    playing : BOOLEAN, pos : {0}],
        ok \in BOOLEAN :
       LET newState == fetchPlaybackState(currentApp,
                                          IF currentApp = cmd.target
                                            THEN b ELSE other, ok)
           actual == IF cmd.target \in Apps
                       THEN cmd.target \in b.present /\ b.playing
                       ELSE b.playing
       IN /\ Answer([cmd EXCEPT !.truth = actual,
                                 !.asked = IF "ctl" \in hist
                                             THEN currentApp ELSE "none"],
                    [result |-> SuccessPlaying(newState.isPlaying),
                     threw |-> FALSE])
          /\ currentState' = toggleKeeps(currentState, newState)
  /\ UNCHANGED EngineRest

\* windows.js: the helper process of the command exits.  It wrote
\* {success:true}, {success:false} when the session refused, the
\* no-session answer, or it failed (non-zero exit, unparseable output,
\* spawn error) and executeCommand rejected.
HelperOutcomes == {"ok", "refused", "nosession", "fail"}
HelperResult(outcome) ==
  CASE outcome = "ok" -> Success
    [] outcome = "refused" -> NoResult
    [] OTHER -> Failure("No active media session")

WinCmdExit ==
  /\ platform = "win32"
  /\ cmd.pc = "sent"
  /\ \E outcome \in HelperOutcomes, playingNow \in BOOLEAN :
       IF outcome = "fail"
         THEN Answer([cmd EXCEPT !.failed = TRUE], Caught("adapter error"))
       ELSE IF cmd.name = "toggle"
         THEN Answer([cmd EXCEPT !.truth = playingNow],
                     [result |-> [HelperResult(outcome) EXCEPT
                                    !.hasIsPlaying = TRUE,
                                    !.isPlaying = ~currentState.isPlaying],
                      threw |-> FALSE])
       ELSE Answer(cmd, [result |-> HelperResult(outcome), threw |-> FALSE])
  /\ UNCHANGED EngineVars

\* ------------------------------------------------- websocket connections
\* A client connects: it is registered and sent the catch-up events built
\* from getFullStatus().
WsConnect ==
  /\ Serving
  /\ ~sub.open
  /\ sub' = [NoSub EXCEPT !.open = TRUE,
                          !.seen = IF mi.currentState.connected
                                        /\ "order" \in hist
                                     THEN {mi.currentApp} ELSE {},
                          !.early = sub.early,
                          !.catchup = IF "catchup" \in hist
                                        THEN CatchUp(getFullStatus(mi))
                                        ELSE NoCatchUp]
  /\ UNCHANGED <<platform, preferredApp, hist, currentApp, currentTrack,
                 currentState, lastTrackName, isChecking, isRunning, loop, cy,
                 inFlight, cyEvents, tick, artPending, mi, run, watch, helper,
                 hPending, cmd, http, Aux, Clock, clients>>

\* The connection closes (or errors): the client is removed.
WsClose ==
  /\ sub.open
  /\ sub' = [NoSub EXCEPT !.early = sub.early]
  /\ UNCHANGED <<platform, preferredApp, hist, currentApp, currentTrack,
                 currentState, lastTrackName, isChecking, isRunning, loop, cy,
                 inFlight, cyEvents, tick, artPending, mi, run, watch, helper,
                 hPending, cmd, http, Aux, Clock, clients>>

\* A further client connects: it is added to the set and sent the catch-up
\* events.
ClientConnect ==
  /\ Serving
  /\ "reg" \in hist => wsUp
  /\ \E c \in ClientIds :
       /\ clients[c].state = "none"
       /\ clients' = [clients EXCEPT
                        ![c] = [state |-> "open",
                                got |-> CatchUp(getFullStatus(mi)).names,
                                ev |-> SocketEvent(hist, "connection")]]
  /\ UNCHANGED <<platform, preferredApp, hist, currentApp, currentTrack,
                 currentState, lastTrackName, isChecking, isRunning, loop, cy,
                 inFlight, cyEvents, tick, artPending, mi, run, watch, helper,
                 hPending, cmd, http, sub, Aux, Clock>>

\* A client's socket stops working: its send() throws from now on, or its
\* readyState leaves OPEN; it stays in the set until its close event.
ClientBreak ==
  /\ \E c \in ClientIds, how \in {"broken", "closed"} :
       /\ clients[c].state = "open"
       /\ clients' = [clients EXCEPT ![c] = [state |-> how, got |-> <<>>,
                                              ev |-> clients[c].ev]]
  /\ UNCHANGED <<platform, preferredApp, hist, currentApp, currentTrack,
                 currentState, lastTrackName, isChecking, isRunning, loop, cy,
                 inFlight, cyEvents, tick, artPending, mi, run, watch, helper,
                 hPending, cmd, http, sub, Aux, Clock>>

\* The 'close' and 'error' handlers: the client leaves the set.
ClientClose ==
  /\ \E c \in ClientIds, how \in {"close", "error"} :
       /\ clients[c].state # "none"
       /\ clients' = [clients EXCEPT
                        ![c] = [NoClient EXCEPT !.ev = SocketEvent(hist, how)]]
  /\ UNCHANGED <<platform, preferredApp, hist, currentApp, currentTrack,
                 currentState, lastTrackName, isChecking, isRunning, loop, cy,
                 inFlight, cyEvents, tick, artPending, mi, run, watch, helper,
                 hPending, cmd, http, sub, Aux, Clock>>
\* ---------------------------------------------------------- GET routes
NoReply == [route |-> NULL, status |-> 0, body |-> NULL]

\* Faulty variant: the status is put together from the track alone.
getFullStatusNoPosition(m) ==
  [getFullStatus(m) EXCEPT !.track.position = 0]

\* getFullStatus() as the /status route calls it.
StatusOf(m) == getFullStatus(m)

\* GET /status: res.json(getFullStatus()).
GetStatus ==
  /\ Serving
  /\ reply' = [route |-> "/status", status |-> 200, body |-> StatusOf(mi)]
  /\ UNCHANGED <<platform, preferredApp, hist, currentApp, currentTrack,
                 currentState, lastTrackName, isChecking, isRunning, loop, cy,
                 inFlight, cyEvents, tick, artPending, mi, run, watch, helper,
                 hPending, cmd, http, sub, clients, currentBundleId,
                 winStopped, restart, Shell, Clock>>

\* GET /track: the track with its app name, or 404.
GetTrackRoute ==
  /\ Serving
  /\ reply' = [route |-> "/track", status |-> GetTrack(mi).status,
               body |-> IF GetTrack(mi).status = 404
                          THEN "No track currently playing"
                          ELSE GetTrack(mi).track]
  /\ UNCHANGED <<platform, preferredApp, hist, currentApp, currentTrack,
                 currentState, lastTrackName, isChecking, isRunning, loop, cy,
                 inFlight, cyEvents, tick, artPending, mi, run, watch, helper,
                 hPending, cmd, http, sub, clients, currentBundleId,
                 winStopped, restart, Shell, Clock>>

\* The response has been written: the route handler returns.
ReplySent ==
  /\ reply # NoReply
  /\ reply' = NoReply
  /\ UNCHANGED <<platform, preferredApp, hist, currentApp, currentTrack,
                 currentState, lastTrackName, isChecking, isRunning, loop, cy,
                 inFlight, cyEvents, tick, artPending, mi, run, watch, helper,
                 hPending, cmd, http, sub, clients, currentBundleId,
                 winStopped, restart, Shell, Clock>>

\* ------------------------------------------------- MediaControlBridge
\* Faulty variant: the catch block of initialize() only logs.
afterBindErrorIgnored == "init"

\* The catch block of initialize(): app.quit(), whose before-quit and
\* will-quit handlers call shutdown().
afterBindError == "quitting"

\* initialize() from the return of mediaInterface.initialize() on:
\* httpServer.start() binds the port, and then the WebSocket server and the
\* tray are started, or it rejects and the catch block runs.
HttpStart ==
  /\ boot = "init"
  /\ ~bindFailed
  /\ loop = "polling"
  /\ \E bound \in BOOLEAN :
       IF bound
         THEN /\ boot' = "up"
              /\ wsUp' = TRUE
              /\ tray' = TRUE
              /\ UNCHANGED bindFailed
         ELSE /\ boot' = afterBindError
              /\ bindFailed' = TRUE
              /\ UNCHANGED <<wsUp, tray>>
  /\ UNCHANGED <<platform, preferredApp, hist, currentApp, currentTrack,
                 currentState, lastTrackName, isChecking, isRunning, loop, cy,
                 inFlight, cyEvents, tick, artPending, mi, run, watch, helper,
                 hPending, cmd, http, sub, clients, currentBundleId,
                 winStopped, restart, Clock, reply>>

\* The tray's Quit item: app.quit(), and shutdown() up to its await of
\* httpServer.stop(): the tray is destroyed, the WebSocket server stopped and
\* its clients closed.
Quit ==
  /\ boot = "up"
  /\ boot' = "quitting"
  /\ tray' = FALSE
  /\ wsUp' = FALSE
  /\ clients' = stopClients(clients)
  /\ sub' = [NoSub EXCEPT !.early = sub.early]
  /\ UNCHANGED <<platform, preferredApp, hist, currentApp, currentTrack,
                 currentState, lastTrackName, isChecking, isRunning, loop, cy,
                 inFlight, cyEvents, tick, artPending, mi, run, watch, helper,
                 hPending, cmd, http, bindFailed, currentBundleId,
                 winStopped, restart, Clock, reply>>

\* shutdown() from the close of the HTTP server on: mediaInterface.shutdown()
\* calls the controller's stop(), and the will-quit handler ends the process
\* with app.exit(0).
ShutdownDone ==
  /\ boot = "quitting"
  /\ boot' = "exited"
  /\ IF platform = "darwin"
       THEN /\ isRunning' = FALSE
            /\ UNCHANGED <<winStopped, watch, restart, hPending>>
       ELSE /\ winStopped' = TRUE
            /\ IF watch # "none"
                 THEN watch' = "none" /\ restart' = "exiting" /\ hPending' = {}
                 ELSE UNCHANGED <<watch, restart, hPending>>
            /\ UNCHANGED isRunning
  /\ UNCHANGED <<platform, preferredApp, hist, currentApp, currentTrack,
                 currentState, lastTrackName, isChecking, loop, cy,
                 inFlight, cyEvents, tick, artPending, mi, run, helper,
                 cmd, http, sub, clients, wsUp, tray, bindFailed,
                 currentBundleId, Clock, reply>>

vars == <<platform, preferredApp, hist, currentApp, currentTrack,
          currentState, lastTrackName, isChecking, isRunning, loop, cy,
          inFlight, cyEvents, tick, artPending, mi, run, watch, helper,
          hPending, cmd, http, sub, currentBundleId, winStopped, restart,
          due, spent, clients, boot, wsUp, tray, bindFailed, reply>>

InitWith(h, plats) ==
  /\ platform \in plats
  /\ preferredApp \in Prefs
  /\ hist = h
  /\ currentApp = NULL
  /\ currentTrack = NullTrack
  /\ currentState = [isPlaying |-> FALSE, position |-> 0]
  /\ lastTrackName = NULL
  /\ isChecking = FALSE
  /\ isRunning = FALSE
  /\ loop = "init"
  /\ cy = IdleCy
  /\ inFlight = 0
  /\ cyEvents = <<>>
  /\ tick = "none"
  /\ artPending = {}
  /\ mi = MiInit
  /\ run = NoRun
  /\ watch = "none"
  /\ helper = HelperInit
  /\ hPending = {}
  /\ cmd = NoCmd
  /\ http = NoHttp
  /\ sub = NoSub
  /\ currentBundleId = NULL
  /\ winStopped = FALSE
  /\ restart = "none"
  /\ due = pollRate
  /\ spent = 0
  /\ clients = [c \in ClientIds |-> NoClient]
  /\ boot = "init"
  /\ wsUp = FALSE
  /\ tray = FALSE
  /\ bindFailed = FALSE
  /\ reply = NoReply

Init == InitWith({}, {"darwin"})

Next ==
  \/ Start
  \/ Tick
  \/ Stop
  \/ CycleResolve
  \/ CycleProbe
  \/ CycleFetch
  \/ ArtworkDone

Spec == Init /\ [][Next]_vars

InitWin == InitWith({}, {"win32"})

NextWin ==
  \/ WinStart
  \/ HelperReady
  \/ HelperCheck
  \/ HelperResume

SpecWin == InitWin /\ [][NextWin]_vars

NextMac ==
  \/ Start
  \/ Tick
  \/ Stop
  \/ CycleResolve
  \/ CycleProbe
  \/ CycleFetch
  \/ ArtworkDone

\* Failed adapter calls told apart, events of a cycle recorded.
InitFail == InitWith({"fail", "order"}, {"darwin"})
SpecFail == InitFail /\ [][NextMac]_vars

\* Runs of cycles with the same report counted.
InitRun == InitWith({"run", "still"}, {"darwin"})
SpecRun == InitRun /\ [][NextMac]_vars

\* Poll ticks recorded.
InitTick == InitWith({"tick", "narrow"}, {"darwin"})
SpecTick == InitTick /\ [][NextMac]_vars

\* Control commands over HTTP on both platforms.
InitCmd == InitWith({"narrow"}, Platforms)
NextCmd ==
  \/ NextMac
  \/ NextWin
  \/ CmdCall
  \/ MacCmdReturn
  \/ MacToggleRefetch
  \/ WinCmdExit
SpecCmd == InitCmd /\ [][NextCmd]_vars

\* Control commands between the steps of poll cycles and the watcher's
\* events, the app a toggle fetched its answer from recorded.
InitCtl == InitWith({"narrow", "ctl"}, Platforms)
NextCtl ==
  \/ Start
  \/ Tick
  \/ CycleResolve
  \/ CycleProbe
  \/ CycleFetch
  \/ NextWin
  \/ CmdCall
  \/ MacCmdReturn
  \/ MacToggleRefetch
  \/ WinCmdExit
SpecCtl == InitCtl /\ [][NextCtl]_vars

\* The macOS controller with a player that moves between two tracks of the
\* same title.
InitArt == InitWith({"twins", "still"}, {"darwin"})
SpecArt == InitArt /\ [][NextMac]_vars

\* The macOS controller with the events of a cycle recorded.
InitOrder == InitWith({"order", "narrow"}, {"darwin"})
SpecOrder == InitOrder /\ [][NextMac]_vars

\* The Windows controller with its watcher exiting, stop() and the restart
\* timer.
InitWinStop == InitWith({"narrow"}, {"win32"})
NextWinStop ==
  \/ NextWin
  \/ WinStop
  \/ WatcherExit
  \/ WinRestart
SpecWinStop == InitWinStop /\ [][NextWinStop]_vars

\* The macOS controller with several WebSocket clients, some of them with
\* sockets that no longer work, the events of a cycle recorded.
InitClients ==
  InitWith({"order", "narrow"}, {"darwin"}) /\ preferredApp = "Spotify"
NextClients ==
  \/ Start
  \/ Tick
  \/ CycleResolve
  \/ CycleProbe
  \/ CycleFetch
  \/ ClientConnect
  \/ ClientBreak
  \/ ClientClose
SpecClients == InitClients /\ [][NextClients]_vars

\* The WebSocket server from its start to its stop(): clients connect once
\* it is up, their sockets break and close, poll cycles broadcast, and the
\* tray's Quit stops it.
InitReg ==
  InitWith({"order", "narrow", "reg"}, {"darwin"}) /\ preferredApp = "Spotify"
NextReg ==
  \/ Start
  \/ Tick
  \/ CycleResolve
  \/ CycleProbe
  \/ CycleFetch
  \/ HttpStart
  \/ ClientConnect
  \/ ClientBreak
  \/ ClientClose
  \/ Quit
SpecReg == InitReg /\ [][NextReg]_vars

\* The application from its start to its exit on both platforms: the
\* controller, the bind of the HTTP port, the tray's Quit and shutdown().
\* Nothing runs once the process has exited.
InitBoot == InitWith({"narrow"}, {"darwin", "win32"})
Alive == boot # "exited"
NextBoot ==
  \/ Alive /\ Start
  \/ Alive /\ Tick
  \/ Alive /\ Stop
  \/ Alive /\ CycleResolve
  \/ Alive /\ CycleProbe
  \/ Alive /\ CycleFetch
  \/ Alive /\ ArtworkDone
  \/ Alive /\ WinStart
  \/ Alive /\ HelperReady
  \/ Alive /\ HelperCheck
  \/ Alive /\ HelperResume
  \/ Alive /\ HttpStart
  \/ Alive /\ Quit
  \/ Alive /\ ShutdownDone
SpecBoot == InitBoot /\ [][NextBoot]_vars

\* The macOS controller with a player whose position moves, and the GET
\* routes.  A route handler reads the Snapshot and writes its response in
\* one synchronous run, so nothing else happens between the two.
InitRead == InitWith({"seek"}, {"darwin"})
Quiet == reply = NoReply
NextRead ==
  \/ Quiet /\ Start
  \/ Quiet /\ Tick
  \/ Quiet /\ Stop
  \/ Quiet /\ CycleResolve
  \/ Quiet /\ CycleProbe
  \/ Quiet /\ CycleFetch
  \/ Quiet /\ ArtworkDone
  \/ Quiet /\ GetStatus
  \/ Quiet /\ GetTrackRoute
  \/ ReplySent
SpecRead == InitRead /\ [][NextRead]_vars

\* The macOS controller with time kept: adapter calls that answer after
\* FastCall ms or hang until the timeout, and pollLoop's timer.
InitTime == InitWith({"time", "fail", "narrow"}, {"darwin"})
SpecTime == InitTime /\ [][NextMac]_vars

\* The macOS controller with a player whose position moves, the position
\* the player gave (in half seconds) kept with the cycle, events recorded.
InitPos == InitWith({"moving", "order"}, {"darwin"})
SpecPos == InitPos /\ [][NextMac]_vars

\* The media-control revision in auto mode with no scripted app playing,
\* the events of a cycle recorded.
InitSys == InitWith({"order"}, {"darwin"}) /\ preferredApp = "auto"
NextSys ==
  \/ Start
  \/ Tick
  \/ Stop
  \/ SystemCycle
SpecSys == InitSys /\ [][NextSys]_vars

\* The same, time kept: a call answers at once or hangs until its timeout.
InitSysTime ==
  InitWith({"order", "time", "system"}, {"darwin"}) /\ preferredApp = "auto"
SpecSysTime == InitSysTime /\ [][NextSys]_vars

\* Failed adapter calls and runs of clean cycles told apart; the timer of
\* a running pollLoop fires again and again, and an awaited call returns.
InitLive == InitWith({"run", "fail", "narrow"}, {"darwin"})
SpecLive ==
  /\ InitLive
  /\ [][NextMac]_vars
  /\ WF_vars(Tick)
  /\ WF_vars(CycleResolve)
  /\ WF_vars(CycleProbe)
  /\ WF_vars(CycleFetch)

\* The inputs and the result of each app resolution recorded, failed
\* presence checks told apart.
InitResolve == InitWith({"resolve", "fail", "narrow"}, {"darwin"})
SpecResolve == InitResolve /\ [][NextMac]_vars

\* Runs of clean cycles with the full fetches made in them counted, the
\* probe and the playback state of the latest cycle kept; Spotify, the app
\* with artwork, is the preferred app.
InitFetch ==
  InitWith({"run", "fetches", "still"}, {"darwin"}) /\ preferredApp = "Spotify"
SpecFetch == InitFetch /\ [][NextMac]_vars

\* Auto mode, with the resolutions and the events of a cycle recorded and
\* failed adapter calls told apart.
InitAuto ==
  /\ InitWith({"resolve", "order", "fail", "narrow"}, {"darwin"})
  /\ preferredApp = "auto"
SpecAuto == InitAuto /\ [][NextMac]_vars

\* A WebSocket subscriber on both platforms, events of a cycle recorded.
InitWs == InitWith({"order", "narrow"}, Platforms)
NextWs ==
  \/ NextMac
  \/ NextWin
  \/ WsConnect
  \/ WsClose
SpecWs == InitWs /\ [][NextWs]_vars

\* A WebSocket subscriber of the macOS build, its catch-up messages recorded.
InitSub == InitWith({"catchup", "narrow"}, {"darwin"})
NextSub ==
  \/ NextMac
  \/ WsConnect
  \/ WsClose
SpecSub == InitSub /\ [][NextSub]_vars

\* ------------------------------------------------------------- claims

\* C1 as stated: the Snapshot has no current track while it has no active
\* app.
CX_C1 == mi.currentApp = NULL => mi.currentTrack = NullData

\* C2 as stated: whenever the Snapshot says playing, it has an active app -
\* also after the app disconnected while it was playing.
CX_C2 == mi.currentState.isPlaying => mi.currentApp # NULL

\* C3 as stated: a step of a poll cycle in which an adapter call has failed
\* leaves the Snapshot as it was and emits no event.
CX_C3 ==
  [][(cy.pc # "idle" /\ cy' # cy /\ ~cy'.clean)
       => (Snapshot' = Snapshot /\ cyEvents' = cyEvents)]_vars

\* C4 as stated: over consecutive cycles in which a scripted app reports the
\* same track, exactly one track_changed is emitted.
CX_C4 == (run.len >= 1 /\ run.app \in Apps) => run.tc + run.art = 1

\* C4: over consecutive cycles in which the backend reports the same app and
\* the same track, the cycles themselves emit at most one track_changed.
T_C4 == run.len >= 1 => run.tc <= 1

\* A run of MaxRun cycles of a scripted app in which one cycle reported the
\* track.
W_C4 == run.len = MaxRun /\ run.app \in Apps /\ run.tc = 1

\* C5 as stated: a command issued while there is no active app is answered
\* with the no-app failure and makes no adapter call.
CX_C5 ==
  (cmd.pc = "done" /\ cmd.target = NULL)
    => (cmd.result = Failure("No media app active") /\ cmd.calls = 0)

\* C6 as stated: the HTTP status of a command response is 200 only on
\* success; a failed command is answered with 500.
CX_C6 == http.status # 0 => (http.status = 200 <=> http.body.success)

\* C7 as stated: a successful toggle response carries the playing state the
\* backend has after the toggle.
CX_C7 ==
  (cmd.pc = "done" /\ cmd.name = "toggle" /\ cmd.result.success)
    => (cmd.result.hasIsPlaying /\ cmd.result.isPlaying = cmd.truth)

T_C9 ==
  [][/\ inFlight' <= 1
     /\ inFlight' > inFlight
          => /\ inFlight = 0
             /\ loop = "init" \/ tick' = "started"
     /\ (tick' = "skipped" /\ tick # "skipped")
          => /\ Snapshot' = Snapshot
             /\ UNCHANGED <<cy, inFlight, isChecking, cyEvents,
                            lastTrackName>>]_vars

\* A tick was skipped while a cycle is in flight.
W_C9 == tick = "skipped" /\ inFlight = 1 /\ cy.pc # "idle"

\* The place of an event in a cycle's order.
Rank(n) ==
  CASE n \in {"media_connected", "media_disconnected"} -> 1
    [] n = "track_changed" -> 2
    [] OTHER -> 3

\* C10 as stated: a cycle emits connection status, then track, then
\* playback; and no subscriber has received a track_changed for an app it
\* was not told is connected.
CX_C10 ==
  /\ \A i, j \in DOMAIN cyEvents : i < j => Rank(cyEvents[i]) <= Rank(cyEvents[j])
  /\ ~sub.early

\* C11: a cycle whose app resolution yields nothing after an app was active
\* emits the disconnection event alone and clears the active app, the track
\* and the fingerprint, in the controller and in the Snapshot; a cycle that
\* resolves nothing with no app active emits nothing and changes nothing;
\* and while no app is active GET /track answers 404.
T_C11 ==
  [][/\ (cy.pc = "resolve" /\ cy'.pc = "idle")
          => IF currentApp # NULL
               THEN /\ cyEvents' = <<"media_disconnected">>
                    /\ currentApp' = NULL
                    /\ currentTrack' = NullTrack
                    /\ lastTrackName' = NULL
                    /\ mi'.currentApp = NULL
                    /\ ~mi'.currentState.connected
               ELSE /\ cyEvents' = <<>>
                    /\ Snapshot' = Snapshot
                    /\ lastTrackName' = lastTrackName
     /\ currentApp' = NULL => GetTrack(mi').status = 404]_vars

\* An app with a known track was disconnected and a later cycle has again
\* resolved nothing.
W_C11 ==
  /\ currentApp = NULL
  /\ cy.pc = "idle"
  /\ cyEvents = <<>>
  /\ loop = "polling"
  /\ artPending # {}
  /\ GetTrack(mi).status = 404

\* C12 as stated: an artwork fetch that completes when the controller's
\* current track is no longer the track it was started for (another title or
\* artist, or no track at all) changes nothing in the Snapshot.
CX_C12 ==
  [][\A p \in artPending \ artPending' :
       (\/ currentTrack = NullTrack
        \/ currentTrack.title # p.title
        \/ currentTrack.artist # p.artist)
         => Snapshot' = Snapshot]_vars

\* C13: the step in which a client connects sends it connection_status,
\* then track_changed exactly when the Snapshot has a track, then
\* playback_state_changed exactly when the Snapshot is connected.
T_C13 ==
  [][(~sub.open /\ sub'.open)
       => sub'.catchup.names =
            <<"connection_status">>
            \o (IF mi.currentTrack # NullData
                  THEN <<"track_changed">> ELSE <<>>)
            \o (IF mi.currentState.connected
                  THEN <<"playback_state_changed">> ELSE <<>>)]_vars

\* A client connected to a server that is connected and has no track, and
\* was sent the connection status and the playback state alone.
W_C13 ==
  /\ sub.open
  /\ sub.catchup.names = <<"connection_status", "playback_state_changed">>

\* C14 as stated: the catch-up messages carry the Snapshot's values in the
\* shapes of the live events - connected and appName; the current track with
\* the fields a live track_changed has; isPlaying and the position.
CX_C14 ==
  [][(~sub.open /\ sub'.open)
       => LET cu == sub'.catchup IN
          /\ cu.connection.connected = mi.currentState.connected
          /\ cu.connection.appName = mi.currentApp
          /\ "track_changed" \in {cu.names[i] : i \in DOMAIN cu.names}
               => /\ DOMAIN cu.track = DOMAIN mi.currentTrack
                  /\ cu.track.title = mi.currentTrack.title
          /\ "playback_state_changed" \in {cu.names[i] : i \in DOMAIN cu.names}
               => /\ cu.playback.isPlaying = mi.currentState.isPlaying
                  /\ cu.playback.hasPosition
                  /\ cu.playback.position = mi.currentState.position]_vars

\* The events a step added to the record of its cycle.
Emitted(n) == \E i \in DOMAIN cyEvents' : cyEvents'[i] = n

\* C15 as stated: a poll cycle emits a connection event exactly when it
\* changes the app name the status shows, a track_changed exactly when it
\* changes the Snapshot's track, and a playback_state_changed exactly when it
\* changes the Snapshot's playing state or position.
CX_C15 ==
  [][(cy.pc = "resolve" /\ cy'.pc = "idle")
       => /\ (getDisplayAppName(currentApp', currentBundleId')
                # getDisplayAppName(currentApp, currentBundleId))
               <=> (Emitted("media_connected") \/ Emitted("media_disconnected"))
          /\ (mi'.currentTrack # mi.currentTrack) <=> Emitted("track_changed")
          /\ (\/ mi'.currentState.isPlaying # mi.currentState.isPlaying
              \/ mi'.currentState.position # mi.currentState.position)
               <=> Emitted("playback_state_changed")]_vars

\* A cycle that went through the comparison of lines 102-133 ends.
Compared == cy.pc \in {"probe", "fetch"} /\ cy'.pc = "idle"

\* C16 as stated: every cycle in which the player gives a position
\* different from the Snapshot's emits a playback_state_changed.
CX_C16 ==
  [][(Compared /\ cy'.raw >= 0 /\ cy'.raw * 500 # mi.currentState.position)
       => Emitted("playback_state_changed")]_vars

\* C16, amended: every cycle whose fetched playback state (position floored
\* to whole seconds) has a position different from the Snapshot's emits a
\* playback_state_changed and stores that state in the controller and in the
\* Snapshot, whatever the previous cycles emitted.
T_C16 ==
  [][(Compared /\ cy'.pb.position # mi.currentState.position)
       => /\ Emitted("playback_state_changed")
          /\ currentState' = cy'.pb
          /\ mi'.currentState.position = cy'.pb.position
          /\ mi'.currentState.isPlaying = cy'.pb.isPlaying]_vars

\* A cycle whose player had moved to a later whole second has ended: it
\* emitted the playback_state_changed and the Snapshot holds the position.
W_C16 ==
  /\ "moving" \in hist
  /\ cy.pc = "idle"
  /\ cyEvents = <<"playback_state_changed">>
  /\ cy.raw >= 2
  /\ mi.currentState.position = cy.pb.position
  /\ mi.currentState.position > 0

\* C17 as stated: once the Windows controller has been stopped it holds no
\* watcher process, and so none has been spawned again.
CX_C17 == winStopped => watch = "none"

\* C18 as stated: after stop() no poll cycle is started, and no step, of a
\* cycle or of an artwork continuation in flight, changes the Snapshot.
CX_C18 ==
  [][(loop # "init" /\ ~isRunning)
       => /\ (cy.pc = "idle" => cy'.pc = "idle")
          /\ Snapshot' = Snapshot]_vars

\* C19 as stated: a cycle in which one adapter call hung until its timeout
\* has completed without a tick of pollLoop having been skipped meanwhile.
CX_C19 ==
  [][(cy.pc # "idle" /\ cy'.pc = "idle" /\ cy'.hung = 1) => cy'.skips = 0]_vars

\* C20: the events a poll cycle publishes reach every client of the set
\* whose socket is open and working, whatever the other clients' sockets
\* do, and the cycle that published them completes.
T_C20 ==
  [][(cy.pc # "idle" /\ cy'.pc = "idle")
       => /\ \A c \in ClientIds :
               clients[c].state = "open" => clients'[c].got = cyEvents'
          /\ ~isChecking'
          /\ mi'.currentApp = currentApp']_vars

\* A cycle has published two events or more while the first client's send
\* threw: the second client has received them all.
W_C20 ==
  /\ cy.pc = "idle"
  /\ Len(cyEvents) >= 2
  /\ clients[1].state = "broken"
  /\ clients[2].state = "open"
  /\ clients[2].got = cyEvents

\* C21: once the bind of the HTTP port has failed, the WebSocket server and
\* the tray are never started, the application is quitting or has exited,
\* and when it has exited the controller has been stopped: the poll loop is
\* not running and no watcher is held.
T_C21 ==
  bindFailed
    => /\ ~wsUp
       /\ ~tray
       /\ boot \in {"quitting", "exited"}
       /\ boot = "exited" => (~isRunning /\ watch = "none")

\* The bind has failed after the controller had started polling, and the
\* application has exited.
W_C21 == bindFailed /\ boot = "exited" /\ loop = "polling"

T_C23 ==
  /\ [][(cy.pc = "fetch" /\ cy' # cy /\ currentTrack' # currentTrack)
          => /\ cy'.pc = "idle"
             /\ ~isChecking'
             /\ mi'.currentTrack.title = currentTrack'.title
             /\ mi'.currentTrack.artist = currentTrack'.artist
             /\ mi'.currentTrack.artwork = NULL]_vars
  /\ []((artPending # {} /\ loop = "polling" /\ isRunning /\ ~isChecking)
          => ENABLED (Tick /\ cy'.pc = "resolve"))

\* Two cycles in a row have reported the track a first cycle detected, and
\* the artwork fetch that cycle started is still pending.
W_C23 ==
  /\ "run" \in hist
  /\ artPending # {}
  /\ run.len >= 2
  /\ run.tc = 1
  /\ run.art = 0
  /\ cy.pc = "idle"
  /\ mi.currentTrack.title # NULL
  /\ mi.currentTrack.artwork = NULL

\* C24 as stated: in a cycle that has completed, the longest wait for one
\* adapter call was shorter than the poll interval.
CX_C24 ==
  [][(cy.pc # "idle" /\ cy'.pc = "idle") => cy'.slow < pollRate]_vars

\* C25 as stated: a step that makes another app the active one while a
\* track is stored ends a cycle that fetched the full metadata from that
\* app, so the track stored afterwards is never the previous app's.
CX_C25 ==
  [][(/\ currentApp # NULL /\ currentApp' # NULL /\ currentApp' # currentApp
      /\ currentTrack # NullTrack)
       => cy.pc = "fetch"]_vars

\* C26 as stated: when from some cycle on every cycle is one in which all
\* calls succeed and the backend reports the same scripted app and the same
\* track, and cycles keep being run, the Snapshot's current track eventually has
\* that track's title and artist.
CX_C26 ==
  (<>[](run.len >= 1 /\ run.app \in Apps) /\ []<>(cy.pc = "probe"))
    => <>(/\ run.len >= 1
          /\ run.app \in Apps
          /\ mi.currentTrack.title = Titles[run.track]
          /\ mi.currentTrack.artist = Artists[run.track])

\* C27 as stated, on Windows: when the helper's last pending check has
\* returned with a session current and that session's track identified, and
\* the Snapshot is connected, the Snapshot has a current track - also when
\* the connection is a reconnection after a disconnection.
CX_C27 ==
  [][(/\ platform = "win32"
      /\ watch' = "ready"
      /\ Cardinality(hPending') < Cardinality(hPending)
      /\ hPending' = {}
      /\ helper'.currentSession # NULL
      /\ helper'.lastTrackId \in TrackIds
      /\ mi'.currentApp # NULL)
       => mi'.currentTrack # NullData]_vars

\* The first app of the fixed order Spotify, Music whose presence check
\* answers true, NULL when there is none.
FirstPresent(up) ==
  IF "Spotify" \in up THEN "Spotify"
  ELSE IF "Music" \in up THEN "Music" ELSE NULL

\* C28: the latest app resolution returned, with a preferred app, that app
\* when its presence check answered true and nothing otherwise; in auto
\* mode the current app when it is a scripted app whose check answered
\* true, otherwise the first app of the order Spotify, Music whose check
\* answered true, otherwise 'System'.
T_C28 ==
  cy.res # "none" =>
    /\ preferredApp # "auto" =>
          /\ cy.res \in {preferredApp, NULL}
          /\ cy.res = preferredApp <=> preferredApp \in cy.up
    /\ (preferredApp = "auto" /\ cy.was \in cy.up) => cy.res = cy.was
    /\ (preferredApp = "auto" /\ cy.was \notin cy.up) =>
          /\ cy.up # {} => cy.res = FirstPresent(cy.up)
          /\ cy.up = {} => cy.res = "System"

\* Auto mode, Music the current app, both players present: the resolution
\* has kept Music although Spotify comes first in the order.
W_C28 ==
  /\ preferredApp = "auto"
  /\ cy.was = "Music"
  /\ cy.up = {"Spotify", "Music"}
  /\ cy.res = "Music"
  /\ cy.pc = "probe"

\* C29 as stated: an app resolution that returned the app that was already
\* the active one made exactly one presence check.
CX_C29 == (cy.res # "none" /\ cy.res = cy.was) => cy.checks = 1

\* C30: a cycle goes on to the full fetch exactly when its probe differs
\* from the stored track name; in a run of cycles in which the backend kept
\* reporting one app and one track at most one full fetch was made; and a
\* cycle that ends with an active app has fetched the playback state, which
\* the controller then holds.
T_C30 ==
  /\ [][(cy.pc = "probe" /\ cy'.pc # "probe")
          => (cy'.pc = "fetch" <=> cy'.quick # lastTrackName)]_vars
  /\ [](run.len >= 1 => run.ft <= 1)
  /\ [][(cy.pc # "idle" /\ cy'.pc = "idle" /\ currentApp' # NULL)
          => /\ cy.pc \in {"probe", "fetch"}
             /\ currentState' = cy'.pb]_vars

\* A run of MaxRun cycles or more on one track of a scripted app with a
\* single full fetch, the latest probe equal to the stored name and the
\* track stored.
W_C30 ==
  /\ "fetches" \in hist
  /\ run.len = MaxRun
  /\ run.ft = 1
  /\ run.app \in Apps
  /\ cy.pc = "idle"
  /\ cy.quick = lastTrackName
  /\ currentTrack.title = Titles[run.track]

\* C31: a step of a control command - its call, the return of the adapter
\* call, toggle's re-fetch, the helper's exit - leaves the controller's and
\* the media interface's state, the track name and the in-flight flag as
\* they were and delivers nothing to a subscriber.  (cmd.heard is written
\* by the watcher's events, not by the command.)
T_C31 ==
  [][[cmd' EXCEPT !.heard = "none"] # [cmd EXCEPT !.heard = "none"]
       => UNCHANGED <<currentApp, currentTrack, currentState, lastTrackName,
                      isChecking, mi, sub, clients, cyEvents>>]_vars

\* A toggle on macOS has been answered with a playing state that the
\* Snapshot does not show.
W_C31 ==
  /\ platform = "darwin"
  /\ cmd.pc = "done"
  /\ cmd.name = "toggle"
  /\ cmd.result.hasIsPlaying
  /\ cmd.result.isPlaying # mi.currentState.isPlaying
  /\ cmd.result.isPlaying # currentState.isPlaying

\* C32: on macOS a command called with an active app has made one command
\* call to the adapter, the app's own script when the app was Spotify or
\* Music and the system-wide call for any other app.
T_C32 ==
  (platform = "darwin" /\ cmd.pc # "none" /\ cmd.target # NULL) =>
    /\ cmd.calls = 1
    /\ cmd.target \in {"Spotify", "Music"} => cmd.via = "app"
    /\ cmd.target \notin {"Spotify", "Music"} => cmd.via = "system"

\* A command sent while 'System' was the active app has succeeded through
\* the system-wide call.
W_C32 ==
  /\ platform = "darwin"
  /\ cmd.pc = "done"
  /\ cmd.target = "System"
  /\ cmd.via = "system"
  /\ cmd.calls = 1
  /\ cmd.result.success

\* C33 as stated: the playback state a toggle on macOS has answered with
\* was fetched from the app the toggle command was sent to.
CX_C33 ==
  (platform = "darwin" /\ cmd.pc = "done" /\ cmd.name = "toggle"
     /\ cmd.result.hasIsPlaying)
    => cmd.asked = cmd.target

\* C34 as stated: a toggle on Windows that succeeded after the watcher's
\* playback_state_changed with the state the toggle brought about had been
\* handled has answered with that state.
CX_C34 ==
  (/\ platform = "win32" /\ cmd.pc = "done" /\ cmd.name = "toggle"
   /\ cmd.result.success
   /\ cmd.heard # "none"
   /\ (cmd.heard = "playing") = cmd.truth)
    => cmd.result.isPlaying = cmd.truth

\* C35 as stated: once a watcher of the Windows controller has signalled
\* ready, the start() that initialize() awaits has completed.
CX_C35 == (platform = "win32" /\ watch = "ready") => loop = "polling"

\* C36: in auto mode a resolution keeps the current app whenever that app's
\* presence check answers true, whichever other apps are present, and
\* leaves 'System' for a scripted app as soon as one is present; the cycle
\* then ends with the app resolved as the active app.
T_C36 ==
  /\ []((preferredApp = "auto" /\ cy.res # "none") =>
          /\ cy.was \in cy.up => cy.res = cy.was
          /\ (cy.was = "System" /\ cy.up # {}) => cy.res \in cy.up)
  /\ [][(preferredApp = "auto" /\ cy.pc # "idle" /\ cy'.pc = "idle")
          => currentApp' = cy'.res]_vars

\* A cycle in auto mode has ended with Music still the active app although
\* Spotify, first in the order, was present as well.
W_C36 ==
  /\ preferredApp = "auto"
  /\ cy.pc = "idle"
  /\ cy.was = "Music"
  /\ cy.up = {"Spotify", "Music"}
  /\ cy.res = "Music"
  /\ currentApp = "Music"

CX_C38 ==
  /\ mi.currentState.connected <=> currentApp # NULL
  /\ mi.currentState.isPlaying = currentState.isPlaying
  /\ mi.currentState.position = currentState.position
  /\ mi.currentTrack.title = currentTrack.title
  /\ mi.currentTrack.artist = currentTrack.artist
  /\ mi.currentTrack.album = currentTrack.album
  /\ mi.currentTrack.duration = currentTrack.duration
  /\ mi.currentTrack.artwork = currentTrack.artwork

\* C39: a client is in the set exactly while the last event of its socket
\* is its connection (no close, no error, no stop() since); what a poll
\* cycle broadcasts reaches every client of the set whose socket is OPEN and
\* no other client; and once stop() has run every client has been closed
\* and the set is empty.
T_C39 ==
  /\ [](\A c \in ClientIds :
          /\ clients[c].state # "none" <=> clients[c].ev = "connection"
          /\ clients[c].state \notin {"open", "broken"} => clients[c].got = <<>>
          /\ (boot = "quitting" /\ ~bindFailed)
               => (clients[c].state = "none" /\ clients[c].ev # "connection"))
  /\ [][(cy.pc # "idle" /\ cy'.pc = "idle")
         => \A c \in ClientIds :
              clients'[c].got =
                IF clients[c].state = "open" THEN cyEvents' ELSE <<>>]_vars

\* stop() has run while one client was in the set and after another had
\* left it by an error: the set is empty.
W_C39 ==
  /\ boot = "quitting"
  /\ ~bindFailed
  /\ ~wsUp
  /\ clients[1].ev = "stop"
  /\ clients[2].ev = "error"
  /\ \A c \in ClientIds : clients[c].state = "none"

====
